---- MODULE Spec2Model ----
(***************************************************************************)
(* Model of gseapy/enrichr.py: the Enrichr object (its fields), the run    *)
(* pipeline (organism resolution, gene-list and gene-set parsing, the      *)
(* per-source loop with local enrichment or the remote submit/fetch        *)
(* protocol, accumulation of results, temporary-directory cleanup).        *)
(*                                                                         *)
(* Python strings whose characters matter (the organism name, which is     *)
(* lower-cased) are sequences of one-character strings.  Strings that are  *)
(* only compared or copied (library names, prefixes) are TLA+ strings.     *)
(***************************************************************************)
EXTENDS Integers, Sequences, FiniteSets, TLC

VARIABLES
    organism,      \* self.organism: the caller's organism name (characters)
    _organism,     \* self._organism: "None", or the resolved endpoint prefix
    gene_list,     \* self.gene_list: list of tokens
    gene_sets,     \* self.gene_sets: [form, items]
    background,    \* self.background: [kind]
    _bg,           \* self._bg: [kind, idtype]
    _outdir,       \* self._outdir: "None" or a directory name
    tmpdir,        \* self._tmpdir: "absent", "exists" or "deleted"
    _isezid,       \* self._isezid: "unset", "True", "False"
    results,       \* self.results: [set, rows]
    res2d,         \* self.res2d: [none, rows]
    _gs,           \* self._gs: name of the current gene-set source
    pc,            \* position inside run()
    gss,           \* run local: the resolved source list
    i,             \* run local: 1-based index of the source being processed
    res,           \* run local: table of the current source [none, rows]
    job_id,        \* get_results local: [userListId, shortId]
    attempts,      \* fetch attempts made by the retry session for this source
    nsubmit,       \* submit requests made for this source
    fetch_ids,     \* userListIds carried by this source's fetch requests
    response,      \* get_results local: the response the retry session returned
    requests,      \* network requests of this call: set of [kind, prefix, inrun]
    bgcalls,       \* background resolutions made in this run
    tested,        \* indices of the sources whose processing has begun in this run
    outputs,       \* per-source artefacts written in this run: set of [kind, gs]
    stdout,        \* messages written to sys.stdout in this run
    stderr,        \* messages written to sys.stderr in this run
    exit_status,   \* status passed to sys.exit, -1 when not called
    error,         \* message of the exception that left run(), "" when none
    fresh,         \* TRUE until run() is called a second time on the instance
    hgtests,       \* calc_pvalues calls of this run: set of [src, bg, resolved, query]
    produced,      \* tables obtained in this run, in order: sequence of [src, rows]
    gmt_source,    \* the mapping custom.gmt was written from: [desc, mapping]
    gmt_file       \* the lines of custom.gmt, each a sequence of characters

vars == << organism, _organism, gene_list, gene_sets, background, _bg, _outdir,
           tmpdir, _isezid, results, res2d, _gs, pc, gss, i, res, job_id,
           attempts, nsubmit, fetch_ids, response, requests, bgcalls, tested, outputs,
           stdout, stderr, exit_status, error, fresh, hgtests, produced,
           gmt_source, gmt_file >>

(***************************************************************************)
(* Characters and str.lower()                                              *)
(***************************************************************************)
UpperLetters == << "A","B","C","D","E","F","G","H","I","J","K","L","M",
                   "N","O","P","Q","R","S","T","U","V","W","X","Y","Z" >>
LowerLetters == << "a","b","c","d","e","f","g","h","i","j","k","l","m",
                   "n","o","p","q","r","s","t","u","v","w","x","y","z" >>

IndexIn(c, letters) ==
    IF \E k \in DOMAIN letters : letters[k] = c
    THEN CHOOSE k \in DOMAIN letters : letters[k] = c
    ELSE 0

LowerChar(c) == IF IndexIn(c, UpperLetters) > 0
                THEN LowerLetters[IndexIn(c, UpperLetters)] ELSE c
UpperChar(c) == IF IndexIn(c, LowerLetters) > 0
                THEN UpperLetters[IndexIn(c, LowerLetters)] ELSE c

\* faulty variant of str.lower(): the name is compared as typed
LowerNoFold(s) == s
\* str.lower()
Lower(s) == [k \in DOMAIN s |-> LowerChar(s[k])]

\* input generators: the same name typed in capitals, or capitalised
UpperStr(s) == [k \in DOMAIN s |-> UpperChar(s[k])]
Capitalize(s) == [k \in DOMAIN s |-> IF k = 1 THEN UpperChar(s[k]) ELSE s[k]]

(***************************************************************************)
(* get_organism: the alias table, in the order the dict literal lists it   *)
(***************************************************************************)
DefaultAliases ==
    { << >>,
      << "h","s" >>,
      << "m","m" >>,
      << "h","u","m","a","n" >>,
      << "m","o","u","s","e" >>,
      << "h","o","m","o"," ","s","a","p","i","e","n","s" >>,
      << "m","u","s"," ","m","u","s","c","u","l","u","s" >>,
      << "h","."," ","s","a","p","i","e","n","s" >>,
      << "m","."," ","m","u","s","c","u","l","u","s" >> }
FlyAliases ==
    { << "f","l","y" >>,
      << "d","."," ","m","e","l","a","n","o","g","a","s","t","e","r" >>,
      << "d","r","o","s","o","p","h","i","l","a"," ",
         "m","e","l","a","n","o","g","a","s","t","e","r" >> }
YeastAliases ==
    { << "y","e","a","s","t" >>,
      << "s","."," ","c","e","r","e","v","i","s","i","a","e" >>,
      << "s","a","c","c","h","a","r","o","m","y","c","e","s"," ",
         "c","e","r","e","v","i","s","i","a","e" >> }
WormAliases ==
    { << "w","o","r","m" >>,
      << "c","."," ","e","l","e","g","a","n","s" >>,
      << "c","a","e","n","o","r","h","a","b","d","i","t","i","s"," ",
         "e","l","e","g","a","n","s" >>,
      << "n","e","m","a","t","o","d","e" >> }
FishAliases ==
    { << "f","i","s","h" >>,
      << "d","."," ","r","e","r","i","o" >>,
      << "d","a","n","i","o"," ","r","e","r","i","o" >>,
      << "z","e","b","r","a","f","i","s","h" >> }

organismTable ==
    << [k |-> "default", v |-> DefaultAliases],
       [k |-> "Fly",     v |-> FlyAliases],
       [k |-> "Yeast",   v |-> YeastAliases],
       [k |-> "Worm",    v |-> WormAliases],
       [k |-> "Fish",    v |-> FishAliases] >>

\* faulty variant of the loop: a name that matches nothing falls back to the
\* default organism instead of leaving the field as it was
RECURSIVE ScanOrganismDefaulting(_, _, _)
ScanOrganismDefaulting(name, cur, idx) ==
    IF idx > Len(organismTable)
    THEN (IF cur = "None" THEN "default" ELSE cur)
    ELSE ScanOrganismDefaulting(name,
             IF Lower(name) \in organismTable[idx].v
             THEN organismTable[idx].k ELSE cur,
             idx + 1)

\* the for loop of get_organism: every entry whose alias list holds the
\* lower-cased name overwrites the field; no match leaves it untouched
RECURSIVE ScanOrganism(_, _, _)
ScanOrganism(name, cur, idx) ==
    IF idx > Len(organismTable)
    THEN cur
    ELSE ScanOrganism(name,
             IF Lower(name) \in organismTable[idx].v
             THEN organismTable[idx].k ELSE cur,
             idx + 1)

(***************************************************************************)
(* Values                                                                  *)
(***************************************************************************)
\* gene-set items: an in-memory dict (identified by id(g)) or a string
DictOf(n, terms) == [t |-> "dict", s |-> "", id |-> n, terms |-> terms]
Dict(n) == DictOf(n, << [term |-> << "P","a","t","h","w","a","y","A" >>,
                         genes |-> << << "T","P","5","3" >>, << "M","Y","C" >> >>] >>)
Str(name) == [t |-> "str", s |-> name, id |-> 0]

\* tables: a DataFrame is its sequence of rows; NoCol marks a missing column
NoCol == "-"
NoTable == [none |-> TRUE, rows |-> << >>]
Table(rows) == [none |-> FALSE, rows |-> rows]
NoJob == [userListId |-> 0, shortId |-> ""]
NoResponse == [ok |-> FALSE, content |-> << >>]
NoBg == [kind |-> "None", idtype |-> ""]

\* pd.read_csv of the export payload: one row per record, service columns only
ReadCsv(content) ==
    [k \in DOMAIN content |-> [Gene_set |-> NoCol, Term |-> content[k]]]

\* faulty variant: the column is not filled in
InsertGeneSetBlank(rows, gs) == rows
\* res.insert(0, "Gene_set", gs): every row gets the source name
InsertGeneSet(rows, gs) ==
    [k \in DOMAIN rows |-> [rows[k] EXCEPT !.Gene_set = gs]]

\* "CUSTOM%s" % id(g)
CustomName(g) == IF g.id = 1 THEN "CUSTOM1"
                 ELSE IF g.id = 2 THEN "CUSTOM2" ELSE "CUSTOM3"

(***************************************************************************)
(* The environment: what the service, the file system and the statistical  *)
(* routine can answer                                                      *)
(***************************************************************************)
\* library names the service lists in datasetStatistics
Catalogs == { {"KEGG_2016", "GO_Biological_Process_2018"} }
\* .gmt paths that exist
GmtFiles == { "custom.gmt" }
\* job handles the service may return from addList
JobHandles == { [userListId |-> 11, shortId |-> "a1"],
                [userListId |-> 12, shortId |-> "b2"] }
\* payloads the export endpoint may return (terms, one per record)
Payloads == { << "term1" >>, << "term2", "term3" >> }
\* what calc_pvalues may return for a local source: no term, or some terms
LocalTerms == { << >>, << "PathwayA" >> }

(***************************************************************************)
(* Inputs of the constructor                                               *)
(***************************************************************************)
MaxSources == 2

Klingon == << "k","l","i","n","g","o","n" >>
OrganismInputs ==
    { << "h","u","m","a","n" >>, << "F","L","Y" >>,
      << "Z","e","b","r","a","f","i","s","h" >>, Klingon }

GeneListInputs == { << << "T","P","5","3" >>, << "E","G","F","R" >> >> }

\* what custom.gmt was written from
GmtInputs ==
    { [desc |-> << "n","a" >>,
       mapping |-> << [term |-> << "S","e","t","A" >>,
                       genes |-> << << "T","P","5","3" >>, << "E","G","F","R" >> >>] >>] }

\* the gene sets a caller puts on an instance it runs again
RerunSourceInputs ==
    { [form |-> "list", items |-> << Str("KEGG_2016") >>],
      [form |-> "list", items |-> << Dict(1) >>],
      [form |-> "list", items |-> << Str("KEGG_2016"), Dict(1) >>] }

Items == { Dict(1), Str("KEGG_2016"), Str("bogus"), Str("custom.gmt") }

RECURSIVE SeqsUpTo(_, _)
SeqsUpTo(S, n) ==
    IF n = 0 THEN { << >> }
    ELSE LET shorter == SeqsUpTo(S, n - 1)
         IN shorter \cup { Append(q, x) : q \in shorter, x \in S }

\* a list of items, a single dict, or a value of another type (the
\* comma-separated string form is not among the inputs)
GeneSetInputs ==
    { [form |-> "list", items |-> q] : q \in SeqsUpTo(Items, MaxSources) }
    \cup { [form |-> "dict", items |-> << Dict(1) >>],
           [form |-> "other", items |-> << >>] }

BackgroundInputs == { [kind |-> "int"], [kind |-> "name"], [kind |-> "object"] }

OutdirInputs == { "None", "Enrichr" }

(***************************************************************************)
(* parse_genelists (list input) and _is_entrez_id                          *)
(***************************************************************************)
Tab == "\t"
Newline == "\n"
Whitespace == { " ", Tab, Newline }

\* str.strip(): leading and trailing whitespace removed
RECURSIVE LStrip(_)
LStrip(s) ==
    IF Len(s) > 0 /\ Head(s) \in Whitespace THEN LStrip(Tail(s)) ELSE s
RECURSIVE RStrip(_)
RStrip(s) ==
    IF Len(s) > 0 /\ s[Len(s)] \in Whitespace
    THEN RStrip(SubSeq(s, 1, Len(s) - 1)) ELSE s
Strip(s) == RStrip(LStrip(s))

Digits == { "0","1","2","3","4","5","6","7","8","9" }

\* int(idx) succeeds: surrounding whitespace is ignored, then an optional sign
\* and one or more digits, single underscores allowed between digits
IsEntrezId(tok) ==
    LET t == Strip(tok)
        body == IF Len(t) > 0 /\ t[1] \in { "+", "-" } THEN Tail(t) ELSE t
    IN /\ Len(body) > 0
       /\ \A k \in DOMAIN body : body[k] \in Digits \cup { "_" }
       /\ body[1] \in Digits
       /\ body[Len(body)] \in Digits
       /\ \A k \in 1..(Len(body) - 1) : ~(body[k] = "_" /\ body[k + 1] = "_")

\* faulty variant: one numeric token is enough
AllEntrezAny(genes) == \E k \in DOMAIN genes : IsEntrezId(genes[k])
\* all(map(self._is_entrez_id, genes))
AllEntrez(genes) == \A k \in DOMAIN genes : IsEntrezId(genes[k])

\* self._gls: set(map(int, genes)) when the flag is set, else the tokens
QueryIdType(isezid) == IF isezid = "True" THEN "numeric" ELSE "symbolic"

(***************************************************************************)
(* Gene-matrix-transposed files: the writer, and the reader of             *)
(* parse_genesets, on lines that are sequences of characters               *)
(***************************************************************************)
\* "\t".join(fields)
RECURSIVE JoinTab(_)
JoinTab(fields) ==
    IF Len(fields) = 0 THEN << >>
    ELSE IF Len(fields) = 1 THEN fields[1]
    ELSE fields[1] \o << Tab >> \o JoinTab(Tail(fields))

\* one record: term, description, genes..., tab-separated, newline-terminated
WriteRecord(e, desc) == JoinTab(<< e.term, desc >> \o e.genes) \o << Newline >>
\* the file written from a mapping: one record per term, in the mapping's order
WriteGmt(src) ==
    [k \in DOMAIN src.mapping |-> WriteRecord(src.mapping[k], src.desc)]

\* str.split(sep) for a one-character separator
RECURSIVE SplitOn(_, _)
SplitOn(s, sep) ==
    IF \E k \in DOMAIN s : s[k] = sep
    THEN LET k == CHOOSE j \in DOMAIN s :
                     s[j] = sep /\ \A h \in 1..(j - 1) : s[h] # sep
         IN << SubSeq(s, 1, k - 1) >> \o SplitOn(SubSeq(s, k + 1, Len(s)), sep)
    ELSE << s >>

\* str.split("\t")
SplitTab(s) == SplitOn(s, Tab)

\* faulty variant: a new key goes to the front of the dict
DictSetFront(d, key, value) ==
    IF \E k \in DOMAIN d : d[k].term = key
    THEN [k \in DOMAIN d |->
            IF d[k].term = key THEN [term |-> key, genes |-> value] ELSE d[k]]
    ELSE << [term |-> key, genes |-> value] >> \o d

\* d[key] = value on an insertion-ordered dict: a repeated key keeps its place
DictSet(d, key, value) ==
    IF \E k \in DOMAIN d : d[k].term = key
    THEN [k \in DOMAIN d |->
            IF d[k].term = key THEN [term |-> key, genes |-> value] ELSE d[k]]
    ELSE Append(d, [term |-> key, genes |-> value])

\* { line.strip().split("\t")[0]: line.strip().split("\t")[2:] for line in ... }
RECURSIVE ParseGmt(_)
ParseGmt(lines) ==
    IF Len(lines) = 0 THEN << >>
    ELSE LET f == SplitTab(Strip(lines[Len(lines)]))
         IN DictSet(ParseGmt(SubSeq(lines, 1, Len(lines) - 1)),
                    f[1], SubSeq(f, 3, Len(f)))

\* the dict parse_genesets builds from the file at an existing .gmt path
GmtDict(path) == DictOf(2, ParseGmt(gmt_file))

\* the names a comma-separated gene_sets string can spell, as characters
KeggChars == << "K","E","G","G","_","2","0","1","6" >>
GmtChars == << "c","u","s","t","o","m",".","g","m","t" >>
\* the str a stripped piece of the string is (any other spelling is a name
\* that is neither catalogued nor an existing path)
NameOf(chars) ==
    CASE chars = KeggChars -> "KEGG_2016"
      [] chars = GmtChars -> "custom.gmt"
      [] OTHER -> "bogus"

\* the list parse_genesets iterates over:
\*   a list as it is;  [ g.strip() for g in gene_sets.strip().split(",") ];
\*   [ gene_sets ] for a dict
InputItems(gs) ==
    IF gs.form = "str"
    THEN LET parts == SplitOn(Strip(gs.text), ",")
         IN [k \in DOMAIN parts |-> Str(NameOf(Strip(parts[k])))]
    ELSE gs.items

(***************************************************************************)
(* parse_genesets: the loop that keeps dicts, catalogued names and         *)
(* existing .gmt paths (parsed into a dict) and drops everything else      *)
(***************************************************************************)
RECURSIVE ExistingSources(_, _)
ExistingSources(gs, library) ==
    IF gs = << >> THEN << >>
    ELSE LET g == Head(gs)
             rest == ExistingSources(Tail(gs), library)
         IN IF g.t = "dict" THEN << g >> \o rest
            ELSE IF g.s \in library THEN << g >> \o rest
            ELSE IF g.s \in GmtFiles THEN << GmtDict(g.s) >> \o rest
            ELSE rest

(***************************************************************************)
(* Network requests                                                        *)
(***************************************************************************)
\* faulty variant: the prefix left out of the URL, as in check_genes' literal
UnprefixedRequest(kind) == [kind |-> kind, prefix |-> "", inrun |-> TRUE]
\* a request of run() to an endpoint built with '%sEnrichr/...' % self._organism
PrefixedRequest(kind) == [kind |-> kind, prefix |-> _organism, inrun |-> TRUE]
\* check_genes: the view endpoint is a literal without the prefix
ViewRequest == [kind |-> "verify", prefix |-> "", inrun |-> FALSE]

\* faulty variant: a budget one larger than the one get_results asks for
RetryNumOffByOne == 5 + 1
\* retry(num=5) in get_results
RetryNum == 5
\* the bounded-retry session: it sends another attempt while fewer than num
\* were made, and gives up with an error once num attempts have failed
RetryMayAttempt(made, num) == made < num
RetryExhausted(made, num) == made >= num

(***************************************************************************)
(* Init: the instance as __init__ leaves it, run() about to be called      *)
(***************************************************************************)
RunLocalsInit ==
    /\ pc = "start"
    /\ gss = << >>
    /\ i = 0
    /\ res = NoTable
    /\ job_id = NoJob
    /\ attempts = 0
    /\ nsubmit = 0
    /\ fetch_ids = {}
    /\ response = NoResponse
    /\ requests = {}
    /\ bgcalls = 0
    /\ tested = {}
    /\ outputs = {}
    /\ stdout = << >>
    /\ stderr = << >>
    /\ exit_status = -1
    /\ error = ""
    /\ hgtests = {}
    /\ produced = << >>

InitFrom(orgs, lists, sets, bgs, files) ==
    /\ organism \in orgs
    /\ _organism = "None"
    /\ gene_list \in lists
    /\ gene_sets \in sets
    /\ background \in bgs
    /\ gmt_source \in files
    /\ gmt_file = WriteGmt(gmt_source)
    /\ _bg = NoBg
    /\ _outdir \in OutdirInputs
    /\ tmpdir = IF _outdir = "None" THEN "exists" ELSE "absent"
    /\ _isezid = "unset"
    /\ results = [set |-> FALSE, rows |-> << >>]
    /\ res2d = NoTable
    /\ _gs = ""
    /\ RunLocalsInit
    /\ fresh = TRUE

InitWith(orgs) ==
    InitFrom(orgs, GeneListInputs, GeneSetInputs, BackgroundInputs, GmtInputs)

Init == InitWith(OrganismInputs)

instanceFields == << organism, _organism, gene_list, gene_sets, background, _bg,
                     _outdir, tmpdir, _isezid, results, res2d, _gs >>
sourceLocals == << res, job_id, attempts, nsubmit, fetch_ids, response >>
console == << stdout, stderr, exit_status >>
fileSystem == << gmt_source, gmt_file >>

\* an exception leaves run(): nothing after the raising statement executes
Raise(msg) == pc' = "raised" /\ error' = msg

(***************************************************************************)
(* run(): organism, gene list, gene sets, the empty-list exit              *)
(***************************************************************************)
\* self.get_organism()
GetOrganism ==
    /\ UNCHANGED << fileSystem, hgtests, produced >>
    /\ pc = "start"
    /\ LET k == ScanOrganism(organism, _organism, 1)
       IN IF k = "None"
          THEN /\ Raise("No supported organism found !!!")
               /\ UNCHANGED _organism
          ELSE /\ _organism' = (IF k = "default" THEN "" ELSE k)
               /\ pc' = "organism"
               /\ UNCHANGED error
    /\ UNCHANGED << organism, gene_list, gene_sets, background, _bg, _outdir,
                    tmpdir, _isezid, results, res2d, _gs, gss, i, sourceLocals,
                    requests, bgcalls, tested, outputs, console, fresh >>

\* genes_list = self.parse_genelists()
ParseGenelists ==
    /\ UNCHANGED << fileSystem, hgtests, produced >>
    /\ pc = "organism"
    /\ _isezid' = (IF AllEntrez(gene_list) THEN "True" ELSE "False")
    /\ pc' = "genelist"
    /\ UNCHANGED << organism, _organism, gene_list, gene_sets, background, _bg,
                    _outdir, tmpdir, results, res2d, _gs, gss, i, sourceLocals,
                    requests, bgcalls, tested, outputs, console, error, fresh >>

\* gss = self.parse_genesets(): the catalog is requested first (get_libraries),
\* then the input form is inspected and the items filtered
ParseGenesets ==
    /\ UNCHANGED << fileSystem, hgtests, produced >>
    /\ pc = "genelist"
    /\ requests' = requests \cup { PrefixedRequest("catalog") }
    /\ \/ /\ Raise("catalog request failed")
          /\ UNCHANGED gss
       \/ \E library \in Catalogs :
             IF gene_sets.form \in { "list", "str", "dict" }
             THEN /\ gss' = ExistingSources(InputItems(gene_sets), library)
                  /\ pc' = "sources"
                  /\ UNCHANGED error
             ELSE /\ Raise("Error parsing enrichr libraries, please provided corrected one")
                  /\ UNCHANGED gss
    /\ UNCHANGED << instanceFields, i, sourceLocals, bgcalls, tested, outputs,
                    console, fresh >>

\* faulty variant of the test: the list is never taken to be empty
NoValidSourceIgnored(g) == FALSE
\* len(gss) < 1
NoValidSource(g) == Len(g) < 1

Hint == "Hint: use get_library_name() to view full list of supported names"

\* the empty-list exit, or self.results = pd.DataFrame() and the loop begins
CheckSources ==
    /\ UNCHANGED << fileSystem, hgtests, produced >>
    /\ pc = "sources"
    /\ IF NoValidSource(gss)
       THEN /\ stderr' = Append(stderr, "Not validated Enrichr library name provided")
            /\ stdout' = Append(stdout, Hint)
            /\ exit_status' = 1
            /\ pc' = "exited"
            /\ UNCHANGED << results, i >>
       ELSE /\ results' = [set |-> TRUE, rows |-> << >>]
            /\ i' = 1
            /\ pc' = "loop"
            /\ UNCHANGED console
    /\ UNCHANGED << organism, _organism, gene_list, gene_sets, background, _bg,
                    _outdir, tmpdir, _isezid, res2d, _gs, gss, sourceLocals,
                    requests, bgcalls, tested, outputs, error, fresh >>

(***************************************************************************)
(* enrich(gmt): background resolution, then the statistical test           *)
(***************************************************************************)
\* get_background(): a file gives its lines as strings; a named reference
\* gives the entrez column or the gene-name column, chosen by _isezid
GetBackground(bg, isezid) ==
    IF bg.kind = "file"
    THEN [kind |-> "set", idtype |-> "symbolic"]
    ELSE [kind |-> "set",
          idtype |-> IF isezid = "True" THEN "numeric" ELSE "symbolic"]

\* the if/elif chain at the top of enrich: what happens to self._bg
\*   int or digit string -> a count;  other str -> get_background()
\*   other scalar        -> the call raises
\*   iterable            -> set(background)
\*   anything else       -> an error is logged and self._bg keeps its value
ResolveBackground(bg, old, isezid) ==
    CASE bg.kind \in { "int", "digits" } ->
            [raised |-> FALSE, resolved |-> TRUE,
             bg |-> [kind |-> "count", idtype |-> ""]]
      [] bg.kind \in { "name", "file" } ->
            [raised |-> FALSE, resolved |-> TRUE, bg |-> GetBackground(bg, isezid)]
      [] bg.kind = "float" ->
            [raised |-> TRUE, resolved |-> FALSE, bg |-> old]
      [] bg.kind = "collection" ->
            [raised |-> FALSE, resolved |-> TRUE,
             bg |-> [kind |-> "set", idtype |-> bg.idtype]]
      [] OTHER ->
            [raised |-> FALSE, resolved |-> FALSE, bg |-> old]

\* the DataFrame enrich builds from the test's terms; None when there are none
EnrichTable(terms) ==
    IF Len(terms) > 0
    THEN Table([k \in DOMAIN terms |-> [Gene_set |-> NoCol, Term |-> terms[k]]])
    ELSE NoTable

\* local mode: res = self.enrich(g); self._gs = "CUSTOM%s" % id(g)
EnrichLocal ==
    /\ UNCHANGED fileSystem
    /\ pc = "loop"
    /\ i <= Len(gss)
    /\ gss[i].t = "dict"
    /\ tested' = tested \cup { i }
    /\ LET r == ResolveBackground(background, _bg, _isezid)
       IN IF r.raised
          THEN /\ Raise("background has no isdigit")
               /\ UNCHANGED << _bg, bgcalls, res, _gs, hgtests, produced >>
          ELSE /\ _bg' = r.bg
               /\ bgcalls' = bgcalls + (IF r.resolved THEN 1 ELSE 0)
               /\ hgtests' = hgtests \cup { [src |-> i, bg |-> r.bg,
                                              resolved |-> r.resolved,
                                              query |-> QueryIdType(_isezid)] }
               /\ \E terms \in LocalTerms :
                     /\ res' = EnrichTable(terms)
                     /\ produced' = IF res'.none THEN produced
                                    ELSE Append(produced, [src |-> i, rows |-> res'.rows])
               /\ _gs' = CustomName(gss[i])
               /\ pc' = "tested"
               /\ UNCHANGED error
    /\ UNCHANGED << organism, _organism, gene_list, gene_sets, background,
                    _outdir, tmpdir, _isezid, results, res2d, gss, i, job_id,
                    attempts, nsubmit, fetch_ids, response, requests, outputs,
                    console, fresh >>

\* faulty variant: a source without hits ends the run with an error
SkipNoHitsRaising ==
    /\ pc = "tested"
    /\ res.none
    /\ Raise("No hits return")
    /\ UNCHANGED << instanceFields, gss, i, sourceLocals, requests, bgcalls,
                    tested, outputs, console, fresh, fileSystem, hgtests,
                    produced >>

\* if res is None: ... continue
SkipNoHits ==
    /\ UNCHANGED << fileSystem, hgtests, produced >>
    /\ pc = "tested"
    /\ res.none
    /\ i' = i + 1
    /\ pc' = "loop"
    /\ UNCHANGED << instanceFields, gss, sourceLocals, requests, bgcalls, tested,
                    outputs, console, error, fresh >>

(***************************************************************************)
(* get_results(gene_list): send_genes, then the export request through the *)
(* retry session                                                           *)
(***************************************************************************)
\* what addList may answer
SubmitResponses ==
    { [ok |-> TRUE, job |-> j] : j \in JobHandles }
    \cup { [ok |-> FALSE, job |-> NoJob] }

\* faulty variant: the status check of send_genes left out
SubmitAcceptedUnchecked(resp) == TRUE
\* send_genes: "if not response.ok: raise"
SubmitAccepted(resp) == resp.ok

\* online mode: self._gs = str(g); job_id = self.send_genes(gene_list, ADDLIST_URL)
SendGenes ==
    /\ UNCHANGED << fileSystem, hgtests, produced >>
    /\ pc = "loop"
    /\ i <= Len(gss)
    /\ gss[i].t = "str"
    /\ tested' = tested \cup { i }
    /\ _gs' = gss[i].s
    /\ requests' = requests \cup { PrefixedRequest("submit") }
    /\ nsubmit' = nsubmit + 1
    /\ \E resp \in SubmitResponses :
          IF SubmitAccepted(resp)
          THEN /\ job_id' = resp.job
               /\ pc' = "submitted"
               /\ UNCHANGED error
          ELSE /\ Raise("Error analyzing gene list")
               /\ UNCHANGED job_id
    /\ UNCHANGED << organism, _organism, gene_list, gene_sets, background, _bg,
                    _outdir, tmpdir, _isezid, results, res2d, gss, i, res,
                    attempts, fetch_ids, response, bgcalls, outputs, console,
                    fresh >>

\* what export may answer to one attempt
FetchResponses ==
    { [ok |-> TRUE, content |-> c] : c \in Payloads } \cup { NoResponse }

\* user_list_id = job_id['userListId']
UserListId(job) == job.userListId

\* one attempt of s.get(url): a failed attempt is followed by another one
\* unless the budget is used up, in which case the session raises; a
\* successful one is parsed with pd.read_csv
FetchAttempt ==
    /\ UNCHANGED << fileSystem, hgtests >>
    /\ pc = "submitted"
    /\ RetryMayAttempt(attempts, RetryNum)
    /\ attempts' = attempts + 1
    /\ requests' = requests \cup { PrefixedRequest("fetch") }
    /\ fetch_ids' = fetch_ids \cup { UserListId(job_id) }
    /\ \E resp \in FetchResponses :
          /\ response' = resp
          /\ IF resp.ok
             THEN /\ res' = Table(ReadCsv(resp.content))
                  /\ produced' = Append(produced, [src |-> i, rows |-> res'.rows])
                  /\ pc' = "fetched"
                  /\ UNCHANGED error
             ELSE /\ UNCHANGED << res, produced >>
                  /\ IF RetryExhausted(attempts', RetryNum)
                     THEN Raise("retries exhausted")
                     ELSE UNCHANGED << pc, error >>
    /\ UNCHANGED << instanceFields, gss, i, job_id, nsubmit, bgcalls, tested,
                    outputs, console, fresh >>

(***************************************************************************)
(* run(): tagging, accumulation, per-source output, cleanup                *)
(***************************************************************************)
\* faulty variant: the master table replaced by the new block, not extended
AppendRowsOverwriting(all, new) == new
\* self.results.append(res, ignore_index=True, sort=True)
AppendRows(all, new) == all \o new

\* the artefacts written for one source: the table, and the bar plot unless
\* no_plot is set (its default, False, is the value modelled)
SourceOutputs(gs) == { [kind |-> "table", gs |-> gs], [kind |-> "plot", gs |-> gs] }

\* faulty variant: the table and the plot written whatever the directory is
WritesOutputAlways(od) == TRUE
\* if self._outdir is None: continue -- nothing is written without a directory
WritesOutput(od) == od # "None"

\* res.insert(0, "Gene_set", self._gs); append to the master table;
\* self.res2d = res; without an output directory the rest is skipped
Accumulate ==
    /\ UNCHANGED << fileSystem, hgtests, produced >>
    /\ pc \in { "tested", "fetched" }
    /\ ~res.none
    /\ LET tagged == InsertGeneSet(res.rows, _gs)
       IN /\ results' = [set |-> TRUE, rows |-> AppendRows(results.rows, tagged)]
          /\ res2d' = Table(tagged)
    /\ outputs' = IF WritesOutput(_outdir) THEN outputs \cup SourceOutputs(_gs)
                  ELSE outputs
    /\ i' = i + 1
    /\ pc' = "loop"
    /\ res' = NoTable
    /\ job_id' = NoJob
    /\ attempts' = 0
    /\ nsubmit' = 0
    /\ fetch_ids' = {}
    /\ response' = NoResponse
    /\ UNCHANGED << organism, _organism, gene_list, gene_sets, background, _bg,
                    _outdir, tmpdir, _isezid, _gs, gss, requests, bgcalls,
                    tested, console, error, fresh >>

\* the loop is over: if self._outdir is None: self._tmpdir.cleanup(); return
Finish ==
    /\ UNCHANGED << fileSystem, hgtests, produced >>
    /\ pc = "loop"
    /\ i > Len(gss)
    /\ tmpdir' = IF _outdir = "None" THEN "deleted" ELSE tmpdir
    /\ pc' = "done"
    /\ UNCHANGED << organism, _organism, gene_list, gene_sets, background, _bg,
                    _outdir, _isezid, results, res2d, _gs, gss, i, sourceLocals,
                    requests, bgcalls, tested, outputs, console, error, fresh >>

(***************************************************************************)
(* The caller, once run() has returned, raised or exited                   *)
(***************************************************************************)
Ended == pc \in { "done", "raised", "exited" }

\* the caller assigns fields of the instance and calls run() again on it
RerunWith(orgs, sets) ==
    /\ UNCHANGED fileSystem
    /\ Ended
    /\ organism' \in orgs
    /\ gene_sets' \in sets
    /\ pc' = "start"
    /\ gss' = << >>
    /\ i' = 0
    /\ res' = NoTable
    /\ job_id' = NoJob
    /\ attempts' = 0
    /\ nsubmit' = 0
    /\ fetch_ids' = {}
    /\ response' = NoResponse
    /\ requests' = {}
    /\ bgcalls' = 0
    /\ tested' = {}
    /\ outputs' = {}
    /\ stdout' = << >>
    /\ stderr' = << >>
    /\ exit_status' = -1
    /\ error' = ""
    /\ fresh' = FALSE
    /\ hgtests' = {}
    /\ produced' = << >>
    /\ UNCHANGED << _organism, gene_list, background, _bg, _outdir,
                    tmpdir, _isezid, results, res2d, _gs >>

\* the caller assigns self.organism and calls run() again
Rerun == RerunWith(OrganismInputs, { gene_sets })

\* the caller assigns self.gene_sets and calls run() again
RerunSources == RerunWith({ organism }, RerunSourceInputs)

\* the caller calls check_genes(gene_list, usr_list_id) on the instance
CheckGenes ==
    /\ UNCHANGED << fileSystem, hgtests, produced >>
    /\ Ended
    /\ requests' = requests \cup { ViewRequest }
    /\ UNCHANGED << instanceFields, pc, gss, i, sourceLocals, bgcalls, tested,
                    outputs, console, error, fresh >>

Next ==
    \/ GetOrganism
    \/ ParseGenelists
    \/ ParseGenesets
    \/ CheckSources
    \/ EnrichLocal
    \/ SkipNoHits
    \/ SendGenes
    \/ FetchAttempt
    \/ Accumulate
    \/ Finish
    \/ Rerun
    \/ CheckGenes

Spec == Init /\ [][Next]_vars

(***************************************************************************)
(* A second specification for the organism table: every alias, typed in    *)
(* lower case, in capitals and capitalised, and names that are no alias    *)
(***************************************************************************)
AllAliases ==
    DefaultAliases \cup FlyAliases \cup YeastAliases \cup WormAliases \cup FishAliases

CaseVariants(S) == S \cup { UpperStr(a) : a \in S } \cup { Capitalize(a) : a \in S }

NonAliases ==
    { Klingon,
      << "h","u","m","a","n","s" >>,
      << " ","h","u","m","a","n" >>,
      << "h",".","s","a","p","i","e","n","s" >>,
      << "r","a","t" >> }

AllOrganismInputs == CaseVariants(AllAliases) \cup NonAliases

InitOrganism ==
    /\ InitWith(AllOrganismInputs)
    /\ gene_sets = [form |-> "list", items |-> << Dict(1), Str("KEGG_2016") >>]
    /\ background = [kind |-> "int"]
    /\ _outdir = "Enrichr"

SpecOrganism == InitOrganism /\ [][Next]_vars

(***************************************************************************)
(* A specification for the background: every way of supplying it, with a   *)
(* symbolic and with a numeric gene list                                    *)
(***************************************************************************)
\* ['7157', '672']: every token parses as an integer
NumericGeneList == << << "7","1","5","7" >>, << "6","7","2" >> >>

\* a count, a numeric string, a file of identifiers, a named reference, an
\* in-memory collection of ints or of strings, a float, an arbitrary object
AllBackgroundInputs ==
    { [kind |-> "int"], [kind |-> "digits"], [kind |-> "file"], [kind |-> "name"],
      [kind |-> "collection", idtype |-> "numeric"],
      [kind |-> "collection", idtype |-> "symbolic"],
      [kind |-> "float"], [kind |-> "object"] }

InitBackground ==
    /\ InitFrom({ << "h","u","m","a","n" >> },
                GeneListInputs \cup { NumericGeneList },
                { [form |-> "list", items |-> << Dict(1), Str("KEGG_2016") >>],
                  [form |-> "list", items |-> << Str("KEGG_2016"), Dict(1) >>] },
                AllBackgroundInputs, GmtInputs)

SpecBackground == InitBackground /\ [][Next]_vars

(***************************************************************************)
(* Specifications for the parsers: run() up to the resolved source list,   *)
(* on every gene list of up to MaxTokens tokens                            *)
(***************************************************************************)
MaxTokens == 2

\* tokens int() accepts, and tokens it rejects
IntegerTokens ==
    { << "1","2","3" >>, << "-","5" >>, << " ","4","2"," " >>, << "1","_","0" >> }
OtherTokens ==
    { << "T","P","5","3" >>, << >>, << "1",".","5" >>, << "1","2","a" >>,
      << "1","_" >> }

NextParse ==
    \/ GetOrganism
    \/ ParseGenelists
    \/ ParseGenesets

InitGeneList ==
    /\ InitFrom({ << "h","u","m","a","n" >>, Klingon },
                SeqsUpTo(IntegerTokens \cup OtherTokens, MaxTokens),
                { [form |-> "list", items |-> << Str("KEGG_2016") >>] },
                { [kind |-> "int"] }, GmtInputs)
    /\ _outdir = "Enrichr"

SpecGeneList == InitGeneList /\ [][NextParse]_vars

\* gene sets in every input form: lists that may hold an empty dict, single
\* dicts (one of them empty), comma-separated strings, a value of another
\* type; custom.gmt written from a mapping with a term, or from an empty one
EmptyDict == DictOf(3, << >>)

GeneSetStrings ==
    { KeggChars,
      KeggChars \o << ",", " " >> \o GmtChars,
      << " " >> \o KeggChars \o << " ", "," >> \o << "b","o","g","u","s" >>,
      GmtChars \o << "," >>,
      << >> }

AllGeneSetInputs ==
    { [form |-> "list", items |-> q] :
         q \in SeqsUpTo(Items \cup { EmptyDict }, MaxSources) }
    \cup { [form |-> "dict", items |-> << Dict(1) >>],
           [form |-> "dict", items |-> << EmptyDict >>],
           [form |-> "other", items |-> << >>] }
    \cup { [form |-> "str", items |-> << >>, text |-> t] : t \in GeneSetStrings }

AllGmtInputs ==
    GmtInputs \cup { [desc |-> << "n","a" >>, mapping |-> << >>] }

InitGeneSets ==
    /\ InitFrom({ << "h","u","m","a","n" >>, Klingon }, GeneListInputs,
                AllGeneSetInputs, { [kind |-> "int"] }, AllGmtInputs)
    /\ _outdir = "Enrichr"

SpecGeneSets == InitGeneSets /\ [][NextParse]_vars

\* custom.gmt written from every mapping of up to MaxTerms terms: names and
\* genes that are plain identifiers, and ones that are empty, padded with
\* whitespace or that hold a tab; gene lists that are empty, in either order
MaxTerms == 2

TermNames ==
    { << "S","1" >>, << "S"," ","2" >>, << >>, << " ","S","1" >> }

GeneLists ==
    { << >>,
      << << "g","1" >> >>,
      << << "g","1" >>, << "g","2" >> >>,
      << << "g","2" >>, << "g","1" >> >>,
      << << "g","1" >>, << >> >>,
      << << "g","1"," " >> >>,
      << << "g", Tab, "1" >> >> }

Descriptions == { << >>, << "n","a" >>, << "n", Tab, "a" >> }

\* a dict has no two equal keys
Mappings ==
    { m \in SeqsUpTo([term : TermNames, genes : GeneLists], MaxTerms) :
        \A j, k \in DOMAIN m : j # k => m[j].term # m[k].term }

InitGmt ==
    /\ InitFrom({ << "h","u","m","a","n" >> }, GeneListInputs,
                { [form |-> "list", items |-> << Str("custom.gmt") >>] },
                { [kind |-> "int"] },
                [desc : Descriptions, mapping : Mappings])
    /\ _outdir = "Enrichr"

SpecGmt == InitGmt /\ [][NextParse]_vars

(***************************************************************************)
(* A third specification for instances whose gene sets are replaced        *)
(* between runs                                                            *)
(***************************************************************************)
InitRerun ==
    /\ InitFrom({ << "h","u","m","a","n" >> }, GeneListInputs, RerunSourceInputs,
                { [kind |-> "int"] }, GmtInputs)
    /\ _outdir = "Enrichr"

NextRerun ==
    \/ GetOrganism
    \/ ParseGenelists
    \/ ParseGenesets
    \/ CheckSources
    \/ EnrichLocal
    \/ SkipNoHits
    \/ SendGenes
    \/ FetchAttempt
    \/ Accumulate
    \/ Finish
    \/ RerunSources
    \/ CheckGenes

SpecRerun == InitRerun /\ [][NextRerun]_vars

(***************************************************************************)
(* Properties                                                              *)
(***************************************************************************)
\* requests this run() has issued itself
RunRequests == { r \in requests : r.inrun }
RunKinds == { r.kind : r \in RunRequests }

\* the exception get_organism raises has left run()
OrganismRejected == pc = "raised" /\ error = "No supported organism found !!!"

\* the name equals an alias up to the case of its letters
SameUpToCase(a, b) ==
    /\ Len(a) = Len(b)
    /\ \A k \in DOMAIN a : UpperChar(a[k]) = UpperChar(b[k])
MatchesAlias(name, S) == \E a \in S : SameUpToCase(name, a)

\* the prefix the alias table gives a name
ExpectedPrefix(name) ==
    CASE MatchesAlias(name, DefaultAliases) -> ""
      [] MatchesAlias(name, FlyAliases)     -> "Fly"
      [] MatchesAlias(name, YeastAliases)   -> "Yeast"
      [] MatchesAlias(name, WormAliases)    -> "Worm"
      [] MatchesAlias(name, FishAliases)    -> "Fish"
      [] OTHER                              -> "None"

\* C1: the fetch step makes at most 5 attempts; a successful attempt (the 5th
\* included) returns the table parsed from that response, row for row; once 5
\* attempts have failed get_results has raised, returned no table, and no
\* further attempt is made.
C1_RetryBudget ==
    /\ attempts <= 5
    /\ pc = "fetched" =>
          /\ response.ok
          /\ ~res.none
          /\ Len(res.rows) = Len(response.content)
          /\ \A k \in DOMAIN res.rows : res.rows[k].Term = response.content[k]
    /\ (attempts = 5 /\ ~response.ok) =>
          /\ pc = "raised"
          /\ error = "retries exhausted"
          /\ res.none
          /\ ~ENABLED FetchAttempt

\* C1 witness: attempts 1-4 failed, the 5th succeeded and its table is returned
C1_Witness ==
    /\ pc = "fetched"
    /\ attempts = 5
    /\ response.content = << "term2", "term3" >>
    /\ Len(res.rows) = 2

\* C2 (as claimed): when run has ended after a fatal per-source failure, every
\* source of the resolved list has been processed.
C2_LaterSourcesProcessed ==
    (Ended /\ error \in { "Error analyzing gene list", "retries exhausted" })
        => tested = 1..Len(gss)

\* C3: on a fresh instance an organism that matches no alias makes run raise
\* the configuration error, and no request has been issued by then.
C3_UnknownOrganismRaisesFirst ==
    (fresh /\ ExpectedPrefix(organism) = "None" /\ pc # "start")
        => /\ OrganismRejected
           /\ RunRequests = {}
           /\ _organism = "None"

\* C3 witness: "klingon" on a fresh instance, the error raised
C3_Witness == fresh /\ organism = Klingon /\ OrganismRejected

\* C4: once get_organism has run on a name that is an alias up to case, it has
\* not raised and the prefix is the one of the alias's row ("" for the default
\* row); the prefix is always one of "", Fly, Yeast, Worm, Fish.
C4_AliasTable ==
    (pc # "start" /\ ExpectedPrefix(organism) # "None")
        => /\ ~OrganismRejected
           /\ _organism = ExpectedPrefix(organism)
           /\ _organism \in { "", "Fly", "Yeast", "Worm", "Fish" }

\* C4 witness: "Zebrafish" resolved to Fish
C4_Witness ==
    /\ pc = "organism"
    /\ organism = << "Z","e","b","r","a","f","i","s","h" >>
    /\ _organism = "Fish"

C6_EmptySourcesExit ==
    /\ [](pc = "exited" =>
            /\ gss = << >>
            /\ exit_status = 1
            /\ \E k \in DOMAIN stdout : stdout[k] = Hint
            /\ stderr # << >>
            /\ tested = {}
            /\ RunKinds \subseteq { "catalog" })
    /\ [](pc \in { "loop", "tested", "submitted", "fetched", "done" } => gss # << >>)
    /\ [][pc' = "exited" => (results' = results /\ res2d' = res2d)]_vars

\* C6 witness: a list whose only name is in no catalog, run exited
C6_Witness ==
    /\ pc = "exited"
    /\ gene_sets.items = << Str("bogus") >>
    /\ exit_status = 1

\* C7 (as claimed): with a temporary output directory, it has been deleted
\* whenever run has ended, whichever way it ended.
C7_TmpdirReleased ==
    (Ended /\ _outdir = "None") => tmpdir = "deleted"

\* the effect of the Accumulated state on a step: the current table, every row
\* tagged with the current source name, is appended to results and becomes res2d
AccumulatedStep ==
    /\ ~res.none
    /\ Len(results'.rows) = Len(results.rows) + Len(res.rows)
    /\ \A k \in DOMAIN results.rows : results'.rows[k] = results.rows[k]
    /\ \A k \in DOMAIN res.rows :
          /\ results'.rows[Len(results.rows) + k].Term = res.rows[k].Term
          /\ results'.rows[Len(results.rows) + k].Gene_set = _gs
    /\ res2d' = [none |-> FALSE,
                 rows |-> [k \in DOMAIN res.rows |->
                              results'.rows[Len(results.rows) + k]]]

\* a step that takes run into phase p
EntersPhase(p) == pc # p /\ pc' = p

\* C8 (as claimed): a source that has been tested or fetched is left only by
\* the Accumulated step.
C8_AlwaysAccumulated ==
    [][(pc \in { "tested", "fetched" } /\ pc' = "loop") => AccumulatedStep]_vars

\* C8 (amended): the phases follow one another in the order Init,
\* OrganismResolved, (gene list parsed,) SourcesResolved, per source Tested or
\* Submitted then Fetched, and Done only after the last source; a source for
\* which a table was obtained is left only by the Accumulated step, while a
\* local source without hits is left without touching results or res2d.
C8_StateMachine ==
    [][ /\ EntersPhase("organism") => pc = "start"
        /\ EntersPhase("genelist") => pc = "organism"
        /\ EntersPhase("sources") => (pc = "genelist" /\ _organism # "None")
        /\ EntersPhase("loop") => pc \in { "sources", "tested", "fetched" }
        /\ (EntersPhase("tested") \/ EntersPhase("submitted")) =>
              (pc = "loop" /\ i \in 1..Len(gss) /\ i \in tested' /\ i' = i)
        /\ EntersPhase("fetched") => pc = "submitted"
        /\ (pc \in { "tested", "fetched" } /\ pc' = "loop") =>
              /\ i' = i + 1
              /\ \/ AccumulatedStep
                 \/ /\ pc = "tested"
                    /\ res.none
                    /\ results' = results
                    /\ res2d' = res2d
        /\ EntersPhase("done") =>
              (pc = "loop" /\ i = Len(gss) + 1 /\ tested = 1..Len(gss))
        /\ pc' = pc => i' = i
      ]_vars

\* C8 witness: a run that is Done after a local source without hits (nothing
\* accumulated for it) followed by a remote source whose rows were accumulated
C8_Witness ==
    /\ pc = "done"
    /\ gss = << Dict(1), Str("KEGG_2016") >>
    /\ results.rows # << >>
    /\ \A k \in DOMAIN results.rows : results.rows[k].Gene_set = "KEGG_2016"

\* C9: a remote source is submitted once; while its fetch is in progress or
\* done the submit has succeeded and every fetch request carries the
\* userListId that submit returned; after a rejected submit the error has
\* left run and no fetch request was made for the source.
C9_SubmitOnceThenFetch ==
    /\ nsubmit <= 1
    /\ pc \in { "submitted", "fetched" } => (nsubmit = 1 /\ job_id \in JobHandles)
    /\ attempts > 0 =>
          /\ nsubmit = 1
          /\ job_id \in JobHandles
          /\ fetch_ids = { job_id.userListId }
    /\ error = "Error analyzing gene list" =>
          /\ pc = "raised"
          /\ nsubmit = 1
          /\ attempts = 0
          /\ fetch_ids = {}
          /\ res.none

\* C9 witness: the second remote source of a run fetched with the handle its
\* own submit returned
C9_Witness ==
    /\ pc = "fetched"
    /\ i = 2
    /\ job_id.userListId = 12
    /\ fetch_ids = { 12 }
    /\ "KEGG_2016" \in { results.rows[k].Gene_set : k \in DOMAIN results.rows }

\* C10 (as claimed): within one run the background is resolved at most once,
\* and only if the resolved list holds a local source.
C10_BackgroundOnce ==
    /\ bgcalls <= 1
    /\ bgcalls > 0 => \E k \in DOMAIN gss : gss[k].t = "dict"

(***************************************************************************)
(* Background resolution                                                   *)
(***************************************************************************)
\* the background values the contract supports: a count, a numeric string,
\* a file path, a named reference, a collection of identifiers
SupportedBackground(bg) ==
    bg.kind \in { "int", "digits", "name", "file", "collection" }

\* C11: a background of an unsupported type is a fatal error raised before
\* the statistical test: once a local source has been reached with such a
\* background, the run has raised and no test of this run was invoked (in
\* particular none with a stale or unresolved background).
C11_UnsupportedBackgroundFatal ==
    (~SupportedBackground(background) /\ (\E k \in tested : gss[k].t = "dict"))
        => (pc = "raised" /\ hgtests = {})

(***************************************************************************)
(* Runs repeated on one instance                                           *)
(***************************************************************************)
\* C19: organism resolution depends only on the current value of the organism
\* field, on a fresh instance and on an instance that has run before alike:
\* once get_organism has run, an unsupported name has raised before any
\* request was sent, and a supported name has given the prefix of its row.
C19_OrganismFromCurrentField ==
    pc # "start" =>
        /\ ExpectedPrefix(organism) = "None"
              => (OrganismRejected /\ RunRequests = {})
        /\ ExpectedPrefix(organism) # "None"
              => (~OrganismRejected /\ _organism = ExpectedPrefix(organism))

(***************************************************************************)
(* Runs without an output directory                                        *)
(***************************************************************************)
\* C20: without an output directory no per-source table or plot is ever
\* written, while the step that accumulates a source's table tags it, appends
\* it to results and assigns res2d in the same way whatever _outdir is (and
\* with a directory it also writes the source's table and plot).
C20_NoOutdirSameAccumulation ==
    /\ [](_outdir = "None" => outputs = {})
    /\ [][ ((pc \in { "tested", "fetched" }) /\ ~res.none /\ pc' = "loop")
              => /\ AccumulatedStep
                 /\ _outdir # "None" => outputs' = outputs \cup SourceOutputs(_gs)
         ]_vars

\* C20 witness: a run without an output directory completed with a local and
\* a remote block in results, res2d set, and nothing written
C20_Witness ==
    /\ _outdir = "None"
    /\ pc = "done"
    /\ Len(produced) = 2
    /\ Len(results.rows) >= 2
    /\ ~res2d.none
    /\ outputs = {}

(***************************************************************************)
(* The accumulated results                                                 *)
(***************************************************************************)
\* enrich has returned None for the current local source
NoHits == pc = "tested" /\ res.none

\* C13: when the test of a local source returns no term, enrich has returned
\* the no-rows result without raising; the step that leaves the source goes to
\* the next position of the loop, with nothing appended to results, res2d
\* untouched and no error; whenever the loop stands before a source, that
\* source can be processed; and a run that completes has processed every
\* source of the resolved list.
C13_NoHitsContinue ==
    /\ [](NoHits => (error = "" /\ exit_status = -1 /\ i \in tested))
    /\ [][ (NoHits /\ pc' # pc)
              => /\ pc' = "loop"
                 /\ i' = i + 1
                 /\ results' = results
                 /\ res2d' = res2d
                 /\ error' = ""
                 /\ UNCHANGED << gss, tested, produced >> ]_vars
    /\ []((pc = "loop" /\ i <= Len(gss)) => ENABLED (EnrichLocal \/ SendGenes))
    /\ [](pc = "done" => tested = 1..Len(gss))

\* C13 witness: the first source, a dict, gave no hits and nothing was
\* appended for it; the second source has been submitted
C13_Witness ==
    /\ pc = "submitted"
    /\ i = 2
    /\ gss[1].t = "dict"
    /\ 1 \in tested
    /\ produced = << >>
    /\ results.rows = << >>
    /\ error = ""

\* the name run gives a source: "CUSTOM%s" % id(g) for a dict, str(g) otherwise
SourceName(g) == IF g.t = "dict" THEN CustomName(g) ELSE g.s

\* the rows a sequence of produced tables amounts to: block after block, each
\* row carrying the name of the source its table came from
RECURSIVE TaggedBlocks(_, _)
TaggedBlocks(p, sources) ==
    IF Len(p) = 0 THEN << >>
    ELSE LET last == p[Len(p)]
         IN TaggedBlocks(SubSeq(p, 1, Len(p) - 1), sources) \o
            [k \in DOMAIN last.rows |->
                [Gene_set |-> SourceName(sources[last.src]),
                 Term |-> last.rows[k].Term]]

\* C14: when run completes, results holds exactly the tables obtained in this
\* run, block after block in source order, every row tagged with the name of
\* the source that produced it; nothing of an earlier run is left in it.
C14_ResultsOfThisRun ==
    pc = "done" =>
        /\ results.set
        /\ results.rows = TaggedBlocks(produced, gss)
        /\ \A k \in DOMAIN produced :
              /\ produced[k].src \in 1..Len(gss)
              /\ k > 1 => produced[k - 1].src < produced[k].src

\* C14 witness: a second run on the instance completed with the block of a
\* dict source followed by the block of a remote source
C14_Witness ==
    /\ ~fresh
    /\ pc = "done"
    /\ Len(produced) = 2
    /\ results.rows[1].Gene_set = "CUSTOM1"
    /\ results.rows[Len(results.rows)].Gene_set = "KEGG_2016"
    /\ Len(results.rows) = Len(produced[1].rows) + Len(produced[2].rows)

\* C15: when run completes, res2d is the tagged table of the last source
\* accumulated in this run (the last block of results); it is never a table
\* of an earlier run: a run that accumulated nothing leaves no table in it.
C15_Res2dLastBlock ==
    pc = "done" =>
        IF Len(produced) = 0
        THEN res2d.none
        ELSE /\ ~res2d.none
             /\ res2d.rows = TaggedBlocks(<< produced[Len(produced)] >>, gss)

\* C12: in every call of the statistical test made with a supported
\* background that resolved to a gene set (from a file, a named reference or
\* an in-memory collection), the identifiers of the background are of the
\* type of the query: both numeric or both symbolic.
C12_BackgroundTypeMatchesQuery ==
    SupportedBackground(background) =>
        \A t \in hgtests : t.bg.kind = "set" => t.bg.idtype = t.query

(***************************************************************************)
(* The parsers                                                             *)
(***************************************************************************)
\* C17: once parse_genelists has run, the is-numeric flag is set, and it is
\* true exactly when every token of the gene list is one that parses as an
\* integer (so it is true for the empty list and false for a list with at
\* least one other token).
C17_NumericFlag ==
    /\ pc \in { "genelist", "sources" } => _isezid \in { "True", "False" }
    /\ _isezid # "unset" =>
          (_isezid = "True" <=> \A k \in DOMAIN gene_list : gene_list[k] \in IntegerTokens)
    /\ (_isezid # "unset" /\ gene_list = << >>) => _isezid = "True"
    /\ (_isezid # "unset" /\ \E k \in DOMAIN gene_list : gene_list[k] \in OtherTokens)
          => _isezid = "False"

\* C17 witness: a list mixing a numeric and a non-numeric token, flagged false
C17_Witness ==
    /\ gene_list = << << "1","2","3" >>, << "T","P","5","3" >> >>
    /\ pc = "sources"
    /\ _isezid = "False"

\* C16: every element of the list parse_genesets returns is a name of the
\* catalog retrieved in the call, or a mapping with at least one term,
\* whatever the input form was.
C16_ResolvedSourcesValid ==
    pc = "sources" =>
        \A k \in DOMAIN gss :
            \/ gss[k].t = "str" /\ \E library \in Catalogs : gss[k].s \in library
            \/ gss[k].t = "dict" /\ Len(gss[k].terms) >= 1

\* an identifier the tab-separated record can carry unchanged: not empty, no
\* whitespace at either end, no tab or newline inside
PlainIdentifier(x) ==
    /\ Len(x) > 0
    /\ x[1] \notin Whitespace
    /\ x[Len(x)] \notin Whitespace
    /\ \A k \in DOMAIN x : x[k] \notin { Tab, Newline }

PlainMapping(src) ==
    /\ \A k \in DOMAIN src.desc : src.desc[k] \notin { Tab, Newline }
    /\ \A k \in DOMAIN src.mapping :
          /\ PlainIdentifier(src.mapping[k].term)
          /\ \A j \in DOMAIN src.mapping[k].genes :
                PlainIdentifier(src.mapping[k].genes[j])

\* C18 (as claimed): for every mapping, the dict parse_genesets builds from the
\* file written from it has the same terms in the same order, each with the
\* same genes in the same order.
C18_RoundTrip ==
    pc = "sources" => (Len(gss) = 1 /\ gss[1].terms = gmt_source.mapping)

\* C18 (amended): the same, for mappings whose term names and gene
\* identifiers are plain identifiers and whose description holds no tab or
\* newline; terms with an empty gene list included.
C18_RoundTripPlain ==
    (pc = "sources" /\ PlainMapping(gmt_source))
        => (Len(gss) = 1 /\ gss[1].terms = gmt_source.mapping)

\* C18 witness: two terms read back in the order written, the first with no
\* gene, the second with its two genes in the order written
C18_Witness ==
    /\ pc = "sources"
    /\ gmt_source.desc = << >>
    /\ gmt_source.mapping =
          << [term |-> << "S"," ","2" >>, genes |-> << >>],
             [term |-> << "S","1" >>, genes |-> << << "g","2" >>, << "g","1" >> >>] >>
    /\ gss[1].terms = gmt_source.mapping

====
